---- MODULE Spec2Model ----
(***************************************************************************)
(* A model of docneat-backend (src/main.py): the OCR line interpreter of   *)
(* upload, the normalizer clean_dataframe, the table builder               *)
(* extract_tables_from_textract, and upload as a whole with its stages.    *)
(*                                                                         *)
(* Text.  A Python string is modelled as the sequence of the chunks that   *)
(* single spaces separate in it.  A chunk is a record                      *)
(*    k = "word": the text s; g says whether s is printed in exactly the   *)
(*                letter case in which the code's patterns spell it        *)
(*    k = "date": a text s of the shape \d{1,2} \w{3} \d{2}; n = 1 when it *)
(*                is a calendar date pandas can parse, 0 otherwise         *)
(*    k = "amt" : a number with two decimals, n its value in 1/100; s is   *)
(*                the currency symbol glued in front of it ("" for none);  *)
(*                g says whether its thousands are grouped with commas     *)
(*    k = "rest": what re.sub leaves of an amount chunk it matched in part *)
(*    k = "gap" : the empty text between two adjacent spaces               *)
(*    k = "ff"  : the form feed with which the text of an image ends       *)
(* A Python value is a record t/s/n: t = "str" (the text s), "float" (the  *)
(* number n in 1/100), "nan" (None, NaN, NaT) or "ts" (the Timestamp of    *)
(* the date chunk s[1]).                                                   *)
(***************************************************************************)
EXTENDS Integers, Sequences, FiniteSets, TLC

VARIABLES
    pc,               \* position of the modelled run
    text,             \* upload: the OCR text of all images, one entry per '\n'-separated line
    data,             \* upload: the list of emitted transaction dicts
    current_date,     \* upload: <<>> for None, else <<the matched date chunk>>
    current_desc,     \* upload: the description being accumulated
    current_paid_out, \* upload: '' or a float
    current_paid_in,  \* upload: '' or a float
    current_balance,  \* upload: '' or a float
    df,               \* upload: the working table; for the normalizer runs its input
    out,              \* outcome of clean_dataframe(df): [ok, df]
    out2,             \* outcome of clean_dataframe applied to its own output
    blocks,           \* extract_tables_from_textract: per TABLE block, its cells as delivered
    current_row,      \* extract_tables_from_textract: the row being collected
    current_table,    \* extract_tables_from_textract: the rows collected
    tables,           \* extract_tables_from_textract: per finished table, what was built
    upload,           \* upload: per request being handled, its local variables
    UPLOAD_DIR,       \* the files of /tmp/uploads: file name -> contents
    OUTPUT_DIR        \* the files of /tmp/outputs: file_id -> the table saved

vars == <<pc, text, data, current_date, current_desc, current_paid_out,
          current_paid_in, current_balance, df, out, out2,
          blocks, current_row, current_table, tables,
          upload, UPLOAD_DIR, OUTPUT_DIR>>

ocrVars == <<text, data, current_date, current_desc, current_paid_out,
             current_paid_in, current_balance>>
gridVars == <<blocks, current_row, current_table, tables>>
uploadVars == <<upload, UPLOAD_DIR, OUTPUT_DIR>>

(***************************************************************************)
(* Bounds of the model.                                                    *)
(***************************************************************************)
MaxLines == 3
MaxRows == 2
MaxCells == 4
MaxIndex == 3
MaxTables == 2

(***************************************************************************)
(* Chunks and values.                                                      *)
(***************************************************************************)
Tok(k, s, n, g) == [k |-> k, s |-> s, n |-> n, g |-> g]
Word(s) == Tok("word", s, 0, TRUE)
OtherCase(s) == Tok("word", s, 0, FALSE)
DateTok(s, valid) == Tok("date", s, IF valid THEN 1 ELSE 0, TRUE)
Amt(sym, n, grouped) == Tok("amt", sym, n, grouped)
Gap == Tok("gap", "", 0, TRUE)
FormFeed == Tok("ff", "", 0, TRUE)

Str(s) == [t |-> "str", s |-> s, n |-> 0]
Float(n) == [t |-> "float", s |-> <<>>, n |-> n]
NaN == [t |-> "nan", s |-> <<>>, n |-> 0]
Timestamp(d) == [t |-> "ts", s |-> <<d>>, n |-> 0]
EmptyStr == Str(<<>>)

RECURSIVE lstrip(_)
lstrip(s) ==
    IF s # <<>> /\ Head(s) \in {Gap, FormFeed} THEN lstrip(Tail(s)) ELSE s

RECURSIVE rstrip(_)
rstrip(s) ==
    IF s # <<>> /\ s[Len(s)] \in {Gap, FormFeed}
    THEN rstrip(SubSeq(s, 1, Len(s) - 1)) ELSE s

\* str.strip()
strip(s) == rstrip(lstrip(s))

\* the accumulated description is overwritten instead of extended
JoinOverwrite(a, b) == b

\* a + ' ' + b
JoinSpace(a, b) == a \o b

(***************************************************************************)
(* The patterns of the code.                                               *)
(***************************************************************************)
\* the alternatives of the pattern that drops OCR lines
OcrNoisePhrases ==
    {"The Secretary", "Account Name", "Your BUSINESS CURRENT ACCOUNT details",
     "Account Summary", "Opening Balance", "Payments In", "Payments Out",
     "Closing Balance", "International Bank Account Number",
     "Branch Identifier Code", "Sortcode", "Sheet Number",
     "46 The Broadway Ealing London W5 5JR", "HSBC > UK", "Contact tel",
     "Text phone", "www.hsbc.co.uk"}

\* the alternatives of the pattern that drops records by their Description
CleanNoisePhrases ==
    {"BALANCE BROUGHT FORWARD", "BALANCE CARRIED FORWARD", "Account Summary",
     "Opening Balance", "Closing Balance", "Sortcode", "Sheet Number",
     "HSBC > UK", "Contact tel", "Text phone", "www.hsbc.co.uk",
     "Your Statement"}

\* re.match(r'(The Secretary|...)', line): at the start of the line only, and
\* in the pattern's letter case only
MatchNoise(line) ==
    /\ line # <<>>
    /\ line[1].k = "word" /\ line[1].g /\ line[1].s \in OcrNoisePhrases

\* the condition of the list comprehension that builds lines; the pattern
\* is matched against the line as read, before strip()
KeptLine(raw) == strip(raw) # <<>> /\ ~MatchNoise(raw)

\* re.match(r'\d{1,2} \w{3} \d{2}', line): at the start of the line only
DateMatch(line) == line # <<>> /\ line[1].k = "date"

\* line.replace(current_date, ''): every occurrence goes
ReplaceDate(line, d) == [i \in 1..Len(line) |-> IF line[i] = d THEN Gap ELSE line[i]]

\* what \d{1,3}(?:,\d{3})*?\.\d{2} matches in an amount chunk, in 1/100: the
\* whole number when its thousands are grouped or it is below 1000.00, else
\* its last three integer digits and the decimals
AmountMatched(c) == IF c.g \/ c.n < 100000 THEN c.n ELSE c.n % 100000

\* what re.sub(pattern, '', .) leaves of a chunk
SubAmount(c) ==
    IF c.k # "amt" THEN c
    ELSE IF c.s = "" /\ AmountMatched(c) = c.n THEN Gap
    ELSE Tok("rest", c.s, (c.n - AmountMatched(c)) \div 100000, TRUE)

RECURSIVE FindAmounts(_)
\* [float(a.replace(',', '')) for a in re.findall(pattern, line)]
FindAmounts(line) ==
    IF line = <<>> THEN <<>>
    ELSE IF Head(line).k = "amt"
         THEN <<AmountMatched(Head(line))>> \o FindAmounts(Tail(line))
         ELSE FindAmounts(Tail(line))

\* 'Visa Rate' in line or 'Transaction Fee' in line
IsFeeLine(line) ==
    \E i \in 1..Len(line) :
        line[i].k = "word" /\ line[i].g /\ line[i].s \in {"Visa Rate", "Transaction Fee"}

\* float(x or 0)
FloatOr0(v) == IF v.t = "float" THEN v.n ELSE 0

\* the dict appended to data
TransactionDict(date, desc, paid_out, paid_in, balance) ==
    ("Date" :> Str(date)) @@ ("Description" :> Str(strip(desc)))
    @@ ("Paid Out" :> paid_out) @@ ("Paid In" :> paid_in)
    @@ ("Balance" :> balance)
    @@ ("Amount" :> Float(FloatOr0(paid_in) - FloatOr0(paid_out)))

OcrColumns == {"Date", "Description", "Paid Out", "Paid In", "Balance", "Amount"}

(***************************************************************************)
(* Tables.  A DataFrame is cols, the set of its column names, and rows,    *)
(* the sequence of its records (functions from cols to values).            *)
(***************************************************************************)
Frame(cols, rows) == [cols |-> cols, rows |-> rows]
EmptyFrame == Frame({}, <<>>)

\* pd.DataFrame(data) for a list of dicts
DataFrame(d) == IF d = <<>> THEN EmptyFrame ELSE Frame(OcrColumns, d)

\* DataFrame.empty
IsEmpty(d) == d.cols = {} \/ d.rows = <<>>

RowIdx(d) == 1..Len(d.rows)

\* col_map, as df.rename applies it to one column name
Rename(c) ==
    CASE c = "Payment type and details" -> "Description"
      [] c = "Paid out" -> "Paid Out"
      [] c = "Paid in" -> "Paid In"
      [] OTHER -> c

RenameFrame(d) ==
    LET newcols == {Rename(c) : c \in d.cols}
    IN  Frame(newcols,
              [i \in RowIdx(d) |->
                  [c2 \in newcols |->
                      d.rows[i][CHOOSE c \in d.cols : Rename(c) = c2]]])

\* Series.str is there for a column that holds strings; a column of floats
\* only has dtype float64 and .str raises AttributeError
StrAccessorOK(d, c) ==
    \/ \E i \in RowIdx(d) : d.rows[i][c].t = "str"
    \/ \A i \in RowIdx(d) : d.rows[i][c].t = "nan"

\* .str.replace(',', '').str.replace('£', '') on one element: NaN for an
\* element that is no string
StrReplace(v) ==
    IF v.t # "str" THEN NaN
    ELSE Str([i \in 1..Len(v.s) |->
                 IF v.s[i].k = "amt"
                 THEN Amt(IF v.s[i].s = "£" THEN "" ELSE v.s[i].s, v.s[i].n, FALSE)
                 ELSE v.s[i]])

\* pd.to_numeric(., errors='coerce') on one element
ToNumeric(v) ==
    IF v.t = "float" THEN v
    ELSE IF /\ v.t = "str" /\ Len(v.s) = 1
            /\ v.s[1].k = "amt" /\ v.s[1].s = "" /\ ~v.s[1].g
         THEN Float(v.s[1].n)
         ELSE NaN

\* .fillna(0)
FillNa0(v) == IF v.t = "nan" THEN Float(0) ELSE v

CleanAmount(v) == FillNa0(ToNumeric(StrReplace(v)))

\* pd.to_datetime(., errors='coerce', dayfirst=True) on one element
ToDatetime(v) ==
    IF v.t = "ts" THEN v
    ELSE IF v.t = "str" /\ Len(v.s) = 1 /\ v.s[1].k = "date" /\ v.s[1].n = 1
         THEN Timestamp(v.s[1])
         ELSE NaN

\* Paid In - Paid Out of two floats
Minus(a, b) == Float(a.n - b.n)

\* .str.contains('BALANCE BROUGHT FORWARD|...', na=False, case=False, regex=True)
ContainsNoise(v) ==
    /\ v.t = "str"
    /\ \E i \in 1..Len(v.s) : v.s[i].k = "word" /\ v.s[i].s \in CleanNoisePhrases

\* the numeric conversions and the Amount and Date columns of clean_dataframe
ConvertRow(r, cols) ==
    LET amounts == "Paid Out" \in cols /\ "Paid In" \in cols
        newcols == IF amounts THEN cols \cup {"Amount"} ELSE cols
    IN  [c \in newcols |->
            CASE amounts /\ c \in {"Paid Out", "Paid In"} -> CleanAmount(r[c])
              [] amounts /\ c = "Amount" ->
                    Minus(CleanAmount(r["Paid In"]), CleanAmount(r["Paid Out"]))
              [] c = "Date" -> ToDatetime(r[c])
              [] OTHER -> r[c]]

\* df.dropna(how="all") keeps a record that has some value
HasValue(r) == \E c \in DOMAIN r : r[c].t # "nan"

\* the records that survive dropna, the Description filter and Amount != 0
KeepRow(r) ==
    /\ HasValue(r)
    /\ ~ContainsNoise(r["Description"])
    /\ r["Amount"] # Float(0)

\* the column labels 0, 1, ... of a table that has no header (camelot's
\* t.df), written as texts; they are integers and have no strip()
IntLabels == {"0", "1", "2", "3", "4"}

\* [col.strip() for col in df.columns] raises AttributeError
HasIntLabel(d) == \E c \in d.cols : c \in IntLabels

Raised == [ok |-> FALSE, df |-> EmptyFrame]
Returned(d) == [ok |-> TRUE, df |-> d]

\* clean_dataframe(df): the table it returns, or Raised when it raises.
\* Column names that are texts are header texts that were stripped when the
\* cells were read, or the keys of the transaction dicts: col.strip() leaves
\* them.
clean_dataframe(d0) ==
    IF IsEmpty(d0) THEN Returned(d0)
    ELSE IF HasIntLabel(d0) THEN Raised   \* AttributeError of col.strip()
    ELSE
    LET d == RenameFrame(d0)
        amounts == "Paid Out" \in d.cols /\ "Paid In" \in d.cols
    IN  IF amounts /\ ~(StrAccessorOK(d, "Paid Out") /\ StrAccessorOK(d, "Paid In"))
        THEN Raised                       \* AttributeError of .str
        ELSE IF "Description" \notin d.cols \/ ~StrAccessorOK(d, "Description")
        THEN Raised                       \* the mask of an empty Series
        ELSE IF ~amounts /\ "Amount" \notin d.cols
        THEN Raised                       \* KeyError: 'Amount'
        ELSE
        LET newcols == IF amounts THEN d.cols \cup {"Amount"} ELSE d.cols
            conv == [i \in RowIdx(d) |-> ConvertRow(d.rows[i], d.cols)]
        IN  Returned(Frame(newcols, SelectSeq(conv, KeepRow)))

(***************************************************************************)
(* upload, the OCR fallback: the text is read line by line; a line is      *)
(* dropped by the list comprehension or interpreted by the loop.           *)
(***************************************************************************)
\* the parsing context of the loop over the lines
Context(date, desc, paid_out, paid_in, balance) ==
    [date |-> date, desc |-> desc, paid_out |-> paid_out,
     paid_in |-> paid_in, balance |-> balance]

\* the context is created anew for every image
FreshContext(ctx) == Context(<<>>, <<>>, EmptyStr, EmptyStr, EmptyStr)

\* the texts of all images are joined into one text before the loop runs,
\* and the context is created once, before the loop: the first line of an
\* image meets the context that the last line of the image before it left
ContextAcrossImages(ctx) == ctx

D1 == DateTok("15 Jun 25", TRUE)
D2 == DateTok("16 Jun 25", TRUE)
Tesco == Word("Tesco Store")
Fee == Word("Transaction Fee")
Forward == Word("BALANCE CARRIED FORWARD")
Header == Word("Payment type and details")
A1 == Amt("", 1250, FALSE)
A2 == Amt("", 200000, FALSE)
A3 == Amt("", 123456, TRUE)

\* the lines the OCR text is drawn from
RawLines ==
    {<<>>, <<A1>>, <<A2>>, <<A1, A3>>, <<A1, A3, A2>>,
     <<Tesco>>, <<Tesco, A1>>, <<Tesco, A1, A3>>,
     <<Fee>>, <<Fee, A1>>,
     <<Forward>>, <<Forward, A3>>, <<Forward, A1, A3>>,
     <<D1>>, <<D2, Tesco>>, <<D1, Tesco, A1, A3>>, <<D2, Tesco, A1, A3>>,
     <<Word("Sortcode")>>, <<Gap, Word("Sortcode")>>,
     <<Tesco, Word("Sortcode")>>, <<OtherCase("Sortcode")>>, <<Header>>}

InitOCR ==
    /\ pc = "ocr"
    /\ text = <<>>
    /\ data = <<>>
    /\ current_date = <<>>
    /\ current_desc = <<>>
    /\ current_paid_out = EmptyStr
    /\ current_paid_in = EmptyStr
    /\ current_balance = EmptyStr
    /\ df = EmptyFrame
    /\ out = Returned(EmptyFrame)
    /\ out2 = Returned(EmptyFrame)
    /\ upload = <<>>
    /\ UPLOAD_DIR = <<>>
    /\ OUTPUT_DIR = <<>>
    /\ blocks = <<>>
    /\ current_row = <<>>
    /\ current_table = <<>>
    /\ tables = <<>>

\* a line the list comprehension drops: blank, or starting with a noise phrase
DroppedLine(raw) ==
    /\ pc = "ocr" /\ Len(text) < MaxLines
    /\ ~KeptLine(raw)
    /\ text' = Append(text, raw)
    /\ UNCHANGED <<pc, data, current_date, current_desc, current_paid_out,
                   current_paid_in, current_balance, df, out, out2>>
    /\ UNCHANGED gridVars
    /\ UNCHANGED uploadVars

\* the loop body for a line that starts with a date
DateLine(raw) ==
    LET line == strip(raw) IN
    /\ pc = "ocr" /\ Len(text) < MaxLines
    /\ KeptLine(raw) /\ DateMatch(line)
    /\ text' = Append(text, raw)
    /\ data' = IF current_date # <<>>
               THEN Append(data, TransactionDict(current_date, current_desc,
                                 current_paid_out, current_paid_in, current_balance))
               ELSE data
    /\ current_date' = <<line[1]>>
    /\ current_desc' = strip(ReplaceDate(line, line[1]))
    /\ current_paid_out' = EmptyStr
    /\ current_paid_in' = EmptyStr
    /\ current_balance' = EmptyStr
    /\ UNCHANGED <<pc, df, out, out2>>
    /\ UNCHANGED gridVars
    /\ UNCHANGED uploadVars

\* the loop body for a line that does not start with a date
OtherLine(raw) ==
    LET line == strip(raw)
        amounts == FindAmounts(line)
        rest == IF amounts # <<>>
                THEN strip([i \in 1..Len(line) |-> SubAmount(line[i])])
                ELSE line
    IN
    /\ pc = "ocr" /\ Len(text) < MaxLines
    /\ KeptLine(raw) /\ ~DateMatch(line)
    /\ text' = Append(text, raw)
    /\ current_paid_out' =
          IF Len(amounts) = 1 /\ IsFeeLine(line) THEN Float(amounts[1])
          ELSE IF Len(amounts) >= 2 THEN Float(amounts[1])
          ELSE current_paid_out
    /\ current_paid_in' =
          IF Len(amounts) >= 2 THEN Float(amounts[2]) ELSE current_paid_in
    /\ current_balance' =
          IF Len(amounts) = 1 /\ ~IsFeeLine(line) THEN Float(amounts[1])
          ELSE IF Len(amounts) >= 3 THEN Float(amounts[3])
          ELSE current_balance
    /\ current_desc' =
          IF rest # <<>>
          THEN (IF current_desc # <<>> THEN JoinSpace(current_desc, rest) ELSE rest)
          ELSE current_desc
    /\ UNCHANGED <<pc, data, current_date, df, out, out2>>
    /\ UNCHANGED gridVars
    /\ UNCHANGED uploadVars

\* text += pytesseract.image_to_string(img) + "\n": the text of an image
\* ends with its form feed, which the added "\n" makes a line of its own;
\* strip() empties that line and the list comprehension drops it
ImageEnd == <<FormFeed>>

NextImage ==
    LET ctx == ContextAcrossImages(Context(current_date, current_desc,
                   current_paid_out, current_paid_in, current_balance))
    IN
    /\ pc = "ocr" /\ Len(text) < MaxLines
    /\ ~KeptLine(ImageEnd)
    /\ text' = Append(text, ImageEnd)
    /\ current_date' = ctx.date
    /\ current_desc' = ctx.desc
    /\ current_paid_out' = ctx.paid_out
    /\ current_paid_in' = ctx.paid_in
    /\ current_balance' = ctx.balance
    /\ UNCHANGED <<pc, data, df, out, out2>>
    /\ UNCHANGED gridVars
    /\ UNCHANGED uploadVars

\* after the loop: the open transaction is appended, the table is built and
\* normalized, and the result is saved (or clean_dataframe raises)
FinishOCR ==
    LET final == IF current_date # <<>>
                 THEN Append(data, TransactionDict(current_date, current_desc,
                                   current_paid_out, current_paid_in, current_balance))
                 ELSE data
        res == clean_dataframe(DataFrame(final))
    IN
    /\ pc = "ocr"
    /\ data' = final
    /\ out' = res
    /\ df' = IF res.ok THEN res.df ELSE DataFrame(final)
    /\ pc' = IF res.ok THEN "saved" ELSE "raised"
    /\ UNCHANGED <<text, current_date, current_desc, current_paid_out,
                   current_paid_in, current_balance, out2>>
    /\ UNCHANGED gridVars
    /\ UNCHANGED uploadVars

NextOCR ==
    \/ \E raw \in RawLines : DroppedLine(raw)
    \/ \E raw \in RawLines : DateLine(raw)
    \/ \E raw \in RawLines : OtherLine(raw)
    \/ NextImage
    \/ FinishOCR

SpecOCR == InitOCR /\ [][NextOCR]_vars

(***************************************************************************)
(* Properties of the OCR line interpreter.                                 *)
(***************************************************************************)
\* the transactions emitted so far: those appended to data and the open one
Emitted ==
    IF current_date # <<>>
    THEN Append(data, TransactionDict(current_date, current_desc,
                      current_paid_out, current_paid_in, current_balance))
    ELSE data

\* this step reads one more line of the text
ReadsLine == pc = "ocr" /\ Len(text') = Len(text) + 1
LineRead == text'[Len(text')]

HasWord(line, phrases) ==
    \E i \in 1..Len(line) : line[i].k = "word" /\ line[i].s \in phrases

ForwardPhrases == {"BALANCE BROUGHT FORWARD", "BALANCE CARRIED FORWARD"}
IsForwardRow(line) == HasWord(line, ForwardPhrases)

\* a boilerplate phrase somewhere in the row, in any letter case
BoilerplatePhrases ==
    (OcrNoisePhrases \cup CleanNoisePhrases \cup {"Payment type and details"})
        \ ForwardPhrases
IsNoiseRow(line) == HasWord(line, BoilerplatePhrases) /\ ~IsForwardRow(line)

\* no date match, no monetary amount, some text
IsContinuationRow(line) ==
    /\ strip(line) # <<>>
    /\ ~DateMatch(strip(line))
    /\ \A i \in 1..Len(line) : line[i].k # "amt"

Last(s) == s[Len(s)]
AllButLast(s) == SubSeq(s, 1, Len(s) - 1)

\* C1: a row with text but no date and no amount that follows the row that
\* opened a transaction is appended, after a space, to the description of
\* that transaction and leaves the number of transactions as it was; while no
\* transaction is open nothing is emitted for it, and the first dated row
\* opens its transaction from its own text alone.
C1_ContinuationMerging ==
    [][ReadsLine =>
        /\ (IsContinuationRow(LineRead) /\ ~IsNoiseRow(LineRead)) =>
              /\ Len(Emitted') = Len(Emitted)
              /\ data' = data
              /\ current_date = <<>> => Emitted' = <<>>
              /\ current_date # <<>> =>
                    LET old == Last(Emitted)
                    IN  /\ AllButLast(Emitted') = AllButLast(Emitted)
                        /\ Last(Emitted') =
                              [old EXCEPT !["Description"] =
                                  Str(IF old["Description"].s = <<>>
                                      THEN strip(LineRead)
                                      ELSE old["Description"].s \o strip(LineRead))]
        /\ (KeptLine(LineRead) /\ DateMatch(strip(LineRead)) /\ current_date = <<>>) =>
              Emitted' = <<TransactionDict(<<strip(LineRead)[1]>>,
                              Tail(strip(LineRead)), EmptyStr, EmptyStr, EmptyStr)>>
       ]_vars

\* C1 witness: a continuation row was merged into the open transaction
C1_Witness ==
    /\ pc = "ocr"
    /\ text = <<<<D2, Tesco>>, <<Fee>>>>
    /\ data = <<>>
    /\ Emitted = <<TransactionDict(<<D2>>, <<Tesco, Fee>>, EmptyStr, EmptyStr, EmptyStr)>>

\* C3 (as claimed): a row that is neither noise nor a forward row and has a
\* date match or an amount starts a transaction of its own, dated with the
\* sticky date, and leaves the transactions emitted before it as they were.
C3_NewTransactionRule ==
    [][(/\ ReadsLine
        /\ KeptLine(LineRead) /\ ~IsNoiseRow(LineRead) /\ ~IsForwardRow(LineRead)
        /\ \/ DateMatch(strip(LineRead))
           \/ FindAmounts(strip(LineRead)) # <<>> /\ current_date # <<>>)
       => /\ Len(Emitted') = Len(Emitted) + 1
          /\ AllButLast(Emitted') = Emitted
          /\ Last(Emitted')["Date"] = Str(current_date')
       ]_vars

\* the amounts a transaction records
RecordedAmounts(e) ==
    {e[c].n : c \in {c \in {"Paid Out", "Paid In", "Balance"} : e[c].t = "float"}}

\* C4 (as claimed): the transaction emitted for a row that carries a date, a
\* description and amounts records the amounts of that row, and its
\* description holds none of them.
C4_AmountsOnDatedRow ==
    [][(/\ ReadsLine
        /\ KeptLine(LineRead) /\ DateMatch(strip(LineRead))
        /\ FindAmounts(strip(LineRead)) # <<>>)
       => LET e == Last(Emitted')
          IN  /\ RecordedAmounts(e) =
                    {FindAmounts(strip(LineRead))[i] :
                        i \in 1..Len(FindAmounts(strip(LineRead)))}
              /\ \A i \in 1..Len(e["Description"].s) :
                    e["Description"].s[i].k \notin {"amt", "date"}
       ]_vars

\* C5 (as claimed): a row that holds a boilerplate phrase, anywhere and in
\* any letter case, and no forward marker changes no transaction: none is
\* added and none has its description or amounts changed.
C5_NoiseRejection ==
    [][(ReadsLine /\ IsNoiseRow(LineRead)) => Emitted' = Emitted]_vars

\* C6 (as claimed): a forward row with one monetary value that follows a
\* dated row yields a record of the saved table whose Balance is that value
\* and whose Paid Out and Paid In are absent.
C6_ForwardRowIsolation ==
    pc = "saved" =>
        \A i \in 2..Len(text) :
            (/\ DateMatch(strip(text[1]))
             /\ IsForwardRow(text[i]) /\ Len(FindAmounts(text[i])) = 1)
            => \E j \in 1..Len(df.rows) :
                  /\ HasWord(df.rows[j]["Description"].s, ForwardPhrases)
                  /\ df.rows[j]["Balance"] = Float(FindAmounts(text[i])[1])
                  /\ df.rows[j]["Paid Out"].t # "float"
                  /\ df.rows[j]["Paid In"].t # "float"

\* the kept lines among the first i that start with a date
DatedLines(i) == {k \in 1..i : KeptLine(text[k]) /\ DateMatch(strip(text[k]))}

RECURSIVE JoinLines(_, _)
\* the texts of the lines i..Len(text), joined by spaces
JoinLines(i, acc) ==
    IF i > Len(text) THEN acc ELSE JoinLines(i + 1, acc \o strip(text[i]))

\* line i is a dated row and the last line of its image, and the lines of the
\* next image read so far, one at least, are continuation rows
SplitByPageBreak(i) ==
    /\ i + 1 < Len(text) /\ text[i + 1] = ImageEnd
    /\ i \in DatedLines(i)
    /\ \A j \in (i + 2)..Len(text) :
          IsContinuationRow(text[j]) /\ ~IsNoiseRow(text[j])

\* C12: in the line interpreter of the OCR fallback, when a dated row is the
\* last row of one page and the rows that follow it, on the next page, are
\* continuation rows, there is exactly one transaction for it (one per dated
\* row read so far): it has the date of the dated row and its description is
\* the text of the dated row followed by the texts of the continuation rows.
C12_CrossPageContinuity ==
    pc = "ocr" =>
        \A i \in 1..Len(text) :
            SplitByPageBreak(i) =>
                /\ Len(Emitted) = Cardinality(DatedLines(i))
                /\ Last(Emitted)["Date"] = Str(<<strip(text[i])[1]>>)
                /\ Last(Emitted)["Description"] =
                      Str(JoinLines(i + 2,
                              strip(ReplaceDate(strip(text[i]), strip(text[i])[1]))))

\* C12 witness: the dated row ended the first page, a continuation row began
\* the second, and one transaction holds both
C12_Witness ==
    /\ pc = "ocr"
    /\ text = <<<<D2, Tesco>>, ImageEnd, <<Fee>>>>
    /\ Emitted = <<TransactionDict(<<D2>>, <<Tesco, Fee>>,
                                   EmptyStr, EmptyStr, EmptyStr)>>

\* C14 (as claimed): for every sequence of lines the interpretation of the
\* lines followed by clean_dataframe completes and returns a table; no
\* exception leaves it.
C14_NoExceptionEscapes == pc # "raised"

\* C15 (as claimed): a row without date, read while a transaction is open,
\* gives its amounts their roles by their number alone, whatever its text:
\* one amount is the Balance, two are Paid In and Balance, three are Paid
\* Out, Paid In and Balance, from left to right; a role that gets no amount
\* keeps what it had.
C15_RightmostIsBalance ==
    [][(/\ ReadsLine
        /\ KeptLine(LineRead) /\ ~DateMatch(strip(LineRead))
        /\ ~IsNoiseRow(LineRead) /\ current_date # <<>>)
       => LET a == FindAmounts(strip(LineRead))
          IN  /\ Len(a) = 1 =>
                    /\ current_balance' = Float(a[1])
                    /\ current_paid_out' = current_paid_out
                    /\ current_paid_in' = current_paid_in
              /\ Len(a) = 2 =>
                    /\ current_paid_in' = Float(a[1])
                    /\ current_balance' = Float(a[2])
                    /\ current_paid_out' = current_paid_out
              /\ Len(a) = 3 =>
                    /\ current_paid_out' = Float(a[1])
                    /\ current_paid_in' = Float(a[2])
                    /\ current_balance' = Float(a[3])
       ]_vars

(***************************************************************************)
(* clean_dataframe on the table of the Textract stage: the header texts    *)
(* are the column names and every cell is the text of a table cell.        *)
(***************************************************************************)
BadDate == DateTok("31 Feb 25", FALSE)
Pounds == Amt("£", 123456, TRUE)

\* the headers of a statement table, and the same without 'Paid in'
HeaderSets ==
    {{"Date", "Payment type and details", "Paid out", "Paid in", "Balance"},
     {"Date", "Payment type and details", "Paid out", "Balance"}}

\* the texts a cell of each column is drawn from
CellTexts(c) ==
    CASE c = "Date" -> {Str(<<D1>>), EmptyStr, Str(<<BadDate>>)}
      [] c = "Payment type and details" -> {Str(<<Tesco>>), Str(<<Forward>>)}
      [] c = "Paid out" -> {EmptyStr, Str(<<Pounds>>)}
      [] c = "Paid in" -> {EmptyStr, Str(<<A3>>), Str(<<Word("n/a")>>)}
      [] c = "Balance" -> {EmptyStr, Str(<<A1>>)}

\* a table row with the given texts in the columns the table has
TableRow(cols, d, p, o, i, b) ==
    [c \in cols |->
        CASE c = "Date" -> d
          [] c = "Payment type and details" -> p
          [] c = "Paid out" -> o
          [] c = "Paid in" -> i
          [] c = "Balance" -> b]

InitNorm ==
    /\ pc = "tables"
    /\ df \in {Frame(h, <<>>) : h \in HeaderSets}
    /\ out = Returned(EmptyFrame)
    /\ out2 = Returned(EmptyFrame)
    /\ upload = <<>>
    /\ UPLOAD_DIR = <<>>
    /\ OUTPUT_DIR = <<>>
    /\ text = <<>>
    /\ data = <<>>
    /\ current_date = <<>>
    /\ current_desc = <<>>
    /\ current_paid_out = EmptyStr
    /\ current_paid_in = EmptyStr
    /\ current_balance = EmptyStr
    /\ blocks = <<>>
    /\ current_row = <<>>
    /\ current_table = <<>>
    /\ tables = <<>>

\* one more data row in the concatenated table
AddRow(r) ==
    /\ pc = "tables" /\ Len(df.rows) < MaxRows
    /\ df' = Frame(df.cols, Append(df.rows, r))
    /\ UNCHANGED <<pc, out, out2>>
    /\ UNCHANGED ocrVars
    /\ UNCHANGED gridVars
    /\ UNCHANGED uploadVars

\* df = clean_dataframe(df)
Clean ==
    /\ pc = "tables"
    /\ out' = clean_dataframe(df)
    /\ pc' = "cleaned"
    /\ UNCHANGED <<df, out2>>
    /\ UNCHANGED ocrVars
    /\ UNCHANGED gridVars
    /\ UNCHANGED uploadVars

\* clean_dataframe applied to the table it returned
Reclean ==
    /\ pc = "cleaned" /\ out.ok
    /\ out2' = clean_dataframe(out.df)
    /\ pc' = "recleaned"
    /\ UNCHANGED <<df, out>>
    /\ UNCHANGED ocrVars
    /\ UNCHANGED gridVars
    /\ UNCHANGED uploadVars

NextNorm ==
    \/ \E d \in CellTexts("Date"), p \in CellTexts("Payment type and details"),
          o \in CellTexts("Paid out"), i \in CellTexts("Paid in"),
          b \in CellTexts("Balance") : AddRow(TableRow(df.cols, d, p, o, i, b))
    \/ Clean
    \/ Reclean

SpecNorm == InitNorm /\ [][NextNorm]_vars

(***************************************************************************)
(* Properties of the normalizer.                                           *)
(***************************************************************************)
\* the input records under the names col_map gives their columns
Input == RenameFrame(df).rows

\* the indices of the input records that clean_dataframe returned, in order
KeptIdx ==
    SelectSeq([i \in 1..Len(Input) |-> i],
              LAMBDA i : KeepRow(ConvertRow(Input[i], DOMAIN Input[i])))

Cleaned == pc = "cleaned" /\ out.ok /\ Len(out.df.rows) = Len(KeptIdx)

\* the cell is the text of a date (one that pandas parses)
IsDateText(v) ==
    v.t = "str" /\ Len(v.s) = 1 /\ v.s[1].k = "date" /\ v.s[1].n = 1

\* the last input record at or before i whose date cell holds a date
StickyIdx(i) ==
    LET dated == {k \in 1..i : IsDateText(Input[k]["Date"])}
    IN  IF dated = {} THEN 0 ELSE CHOOSE k \in dated : \A l \in dated : l <= k

\* C2 (as claimed): every record of the final table carries a date, the
\* date most recently matched at or before the row it comes from.
C2_DateStickiness ==
    Cleaned =>
        \A j \in 1..Len(KeptIdx) :
            StickyIdx(KeptIdx[j]) # 0 =>
                /\ out.df.rows[j]["Date"].t = "ts"
                /\ out.df.rows[j]["Date"].s = Input[StickyIdx(KeptIdx[j])]["Date"].s

\* the cell is the text of a number
IsNumberText(v) == v.t = "str" /\ Len(v.s) = 1 /\ v.s[1].k = "amt"

\* C7 (as claimed): in the final table an amount that the input lacks, or
\* gives as text that is no number, is absent (never zero), and an amount
\* the input gives has the value given.
C7_AbsentStaysAbsent ==
    Cleaned =>
        \A j \in 1..Len(KeptIdx) :
            \A c \in {"Paid Out", "Paid In", "Balance"} \cap DOMAIN Input[KeptIdx[j]] :
                LET v == Input[KeptIdx[j]][c]
                    w == out.df.rows[j][c]
                IN  IF IsNumberText(v)
                    THEN \/ w = Float(v.s[1].n)
                         \/ IsNumberText(w) /\ w.s[1].n = v.s[1].n
                    ELSE w.t # "float"

\* the indices of the records that differ from every earlier record
FirstOccurrences ==
    SelectSeq([i \in 1..Len(df.rows) |-> i],
              LAMBDA i : \A k \in 1..(i - 1) : df.rows[k] # df.rows[i])

\* C8 (as claimed): the normalized table holds, in input order, exactly the
\* records that are no copy of an earlier record.
C8_OrderPreservingDedup ==
    Cleaned => KeptIdx = FirstOccurrences

\* C9 (as claimed): normalizing the normalized table completes and returns
\* the same records.
C9_Idempotence ==
    pc = "recleaned" => out2.ok /\ out2.df.rows = out.df.rows

(***************************************************************************)
(* extract_tables_from_textract: the TABLE blocks are walked in order, the *)
(* cells of each in the order its CHILD relationship lists them.           *)
(***************************************************************************)
\* the text recognized in the cell at (r, c) of the k-th table; "" is <<>>
CellText(k, r, c) == <<k, r, c>>
EmptyText == <<>>

Cell(k, r, c) == [row |-> r, col |-> c, text |-> CellText(k, r, c)]

RECURSIVE InsertByCol(_, _)
\* x goes behind every cell whose column is not greater
InsertByCol(x, s) ==
    IF s = <<>> THEN <<x>>
    ELSE IF Last(s).col <= x.col THEN Append(s, x)
    ELSE Append(InsertByCol(x, AllButLast(s)), Last(s))

RECURSIVE SortedByCol(_)
\* sorted(row, key=lambda x: x['col']), a stable sort
SortedByCol(row) ==
    IF row = <<>> THEN <<>>
    ELSE InsertByCol(Last(row), SortedByCol(AllButLast(row)))

\* [cell['text'] for cell in sorted_row]
RowTexts(row) == [i \in 1..Len(row) |-> SortedByCol(row)[i].text]

\* df_data of a table
DfData(table) == [i \in 1..Len(table) |-> RowTexts(table[i])]

\* pd.DataFrame(data_rows, columns=headers) raises ValueError unless the
\* longest data row has as many entries as there are headers
DataFrameOK(headers, data_rows) ==
    \/ data_rows = <<>>
    \/ /\ \A i \in 1..Len(data_rows) : Len(data_rows[i]) <= Len(headers)
       /\ \E i \in 1..Len(data_rows) : Len(data_rows[i]) = Len(headers)

RECURSIVE TotalCells(_)
TotalCells(bs) == IF bs = <<>> THEN 0 ELSE Len(Head(bs)) + TotalCells(Tail(bs))

InitGrid ==
    /\ pc = "blocks"
    /\ blocks = <<<<>>>>
    /\ current_row = <<>>
    /\ current_table = <<>>
    /\ tables = <<>>
    /\ text = <<>>
    /\ data = <<>>
    /\ current_date = <<>>
    /\ current_desc = <<>>
    /\ current_paid_out = EmptyStr
    /\ current_paid_in = EmptyStr
    /\ current_balance = EmptyStr
    /\ df = EmptyFrame
    /\ out = Returned(EmptyFrame)
    /\ out2 = Returned(EmptyFrame)
    /\ upload = <<>>
    /\ UPLOAD_DIR = <<>>
    /\ OUTPUT_DIR = <<>>

\* the loop body for one cell of the current TABLE block
AddCell(r, c) ==
    LET k == Len(blocks)
        cell == Cell(k, r, c)
        newrow == current_row # <<>> /\ r > Last(current_row).row
    IN
    /\ pc = "blocks" /\ TotalCells(blocks) < MaxCells
    /\ \A i \in 1..Len(blocks[k]) : ~(blocks[k][i].row = r /\ blocks[k][i].col = c)
    /\ blocks' = [blocks EXCEPT ![k] = Append(@, cell)]
    /\ current_table' = IF newrow THEN Append(current_table, current_row)
                        ELSE current_table
    /\ current_row' = IF newrow THEN <<cell>> ELSE Append(current_row, cell)
    /\ UNCHANGED <<pc, tables, df, out, out2>>
    /\ UNCHANGED ocrVars
    /\ UNCHANGED uploadVars

\* after the cells of a TABLE block: the table is built and appended;
\* current_table is reset, current_row is not.  Then the next block is
\* entered (more) or the function returns.
EndTable(more) ==
    LET table == IF current_row # <<>> THEN Append(current_table, current_row)
                 ELSE current_table
        df_data == DfData(table)
        headers == df_data[1]
        data_rows == Tail(df_data)
        ok == table = <<>> \/ DataFrameOK(headers, data_rows)
    IN
    /\ pc = "blocks"
    /\ more => Len(blocks) < MaxTables
    /\ tables' = IF table # <<>> /\ ok
                 THEN Append(tables, [block |-> Len(blocks), df_data |-> df_data,
                                      headers |-> headers, data_rows |-> data_rows])
                 ELSE tables
    /\ current_table' = <<>>
    /\ pc' = IF ~ok THEN "raised" ELSE IF more THEN "blocks" ELSE "returned"
    /\ blocks' = IF ok /\ more THEN Append(blocks, <<>>) ELSE blocks
    /\ UNCHANGED <<current_row, df, out, out2>>
    /\ UNCHANGED ocrVars
    /\ UNCHANGED uploadVars

NextGrid ==
    \/ \E r \in 1..MaxIndex, c \in 1..MaxIndex : AddCell(r, c)
    \/ \E more \in BOOLEAN : EndTable(more)

SpecGrid == InitGrid /\ [][NextGrid]_vars

(***************************************************************************)
(* Properties of the table builder.                                        *)
(***************************************************************************)
MaxOf(S) == IF S = {} THEN 0 ELSE CHOOSE m \in S : \A x \in S : x <= m

BlockCells(k) == {blocks[k][i] : i \in 1..Len(blocks[k])}

\* the dense grid of the k-th block: rows 1..max row, columns 1..max column,
\* the text of the cell at its place and "" where there is no cell
DenseGrid(k) ==
    LET R == MaxOf({x.row : x \in BlockCells(k)})
        C == MaxOf({x.col : x \in BlockCells(k)})
    IN  [r \in 1..R |->
            [c \in 1..C |->
                IF \E x \in BlockCells(k) : x.row = r /\ x.col = c
                THEN CellText(k, r, c) ELSE EmptyText]]

\* the cells of the k-th block come in reading order and no row is empty
InReadingOrder(k) ==
    /\ \A i \in 1..(Len(blocks[k]) - 1) :
          \/ blocks[k][i].row < blocks[k][i + 1].row
          \/ /\ blocks[k][i].row = blocks[k][i + 1].row
             /\ blocks[k][i].col < blocks[k][i + 1].col
    /\ \A r \in 1..MaxOf({x.row : x \in BlockCells(k)}) :
          \E x \in BlockCells(k) : x.row = r

\* C10 (as claimed): the grid built for a table is the dense grid of its
\* cells: one entry per row and column up to the largest seen, "" where no
\* cell was recognized, the text of the cell of column c at position c
\* (checked for the first table of the response, its cells in reading order).
C10_DenseGrid ==
    \A i \in 1..Len(tables) :
        (tables[i].block = 1 /\ InReadingOrder(1)) =>
            tables[i].df_data = DenseGrid(1)

\* C11 (as claimed): the grid built for a table holds texts of that table's
\* own cells only, and a table without cells gets an empty grid (no table is
\* built for it), whatever tables came before it.
C11_GridPurity ==
    \A i \in 1..Len(tables) :
        /\ blocks[tables[i].block] # <<>>
        /\ \A r \in 1..Len(tables[i].df_data) :
              \A c \in 1..Len(tables[i].df_data[r]) :
                  tables[i].df_data[r][c][1] = tables[i].block

\* C17 (as claimed): in whatever order the cells of a table are delivered,
\* the cells of a grid row share one row index, no row index is found in two
\* grid rows, the grid rows ascend by row index and the cells of a grid row
\* ascend by column index (checked for the first table of the response).
C17_RowGrouping ==
    \A i \in 1..Len(tables) :
        tables[i].block = 1 =>
            LET g == tables[i].df_data
            IN  /\ \A r \in 1..Len(g) : \A c \in 1..Len(g[r]) :
                      g[r][c][2] = g[r][1][2]
                /\ \A r \in 1..(Len(g) - 1) : g[r][1][2] < g[r + 1][1][2]
                /\ \A r \in 1..Len(g) : \A c \in 1..(Len(g[r]) - 1) :
                      g[r][c][3] < g[r][c + 1][3]

\* C20 (as claimed): every row of a detected table is among the data rows
\* built for it: the text of each of its cells is in a data row (checked for
\* the tables after the first, which continue the statement).
C20_NoRowLost ==
    \A i \in 1..Len(tables) :
        tables[i].block > 1 =>
            \A x \in BlockCells(tables[i].block) :
                \E r \in 1..Len(tables[i].data_rows) :
                    \E c \in 1..Len(tables[i].data_rows[r]) :
                        tables[i].data_rows[r][c] = x.text

(***************************************************************************)
(* upload as a whole: the requests are handled by worker processes that    *)
(* share /tmp/uploads and /tmp/outputs; a request goes through the         *)
(* Textract stage, the Camelot fallback, the OCR fallback and the save.    *)
(* The contents of request p is the document p, and every text an engine   *)
(* reads from document d shows the payee of d.                             *)
(***************************************************************************)
MaxUploads == 2
Requests == 1..MaxUploads

\* the values of file.filename
FileNames == {"a.pdf", "b.pdf"}

Payee(d) ==
    Word(CASE d = 1 -> "Tesco Store" [] d = 2 -> "Salary" [] OTHER -> "Rent")

FullHeaders == {"Date", "Payment type and details", "Paid out", "Paid in", "Balance"}

RECURSIVE ConcatRows(_, _)
ConcatRows(ts, cols) ==
    IF ts = <<>> THEN <<>>
    ELSE [i \in 1..Len(Head(ts).rows) |->
             [c \in cols |-> IF c \in Head(ts).cols THEN Head(ts).rows[i][c]
                             ELSE NaN]]
         \o ConcatRows(Tail(ts), cols)

\* pd.concat(tables, ignore_index=True)
Concat(ts) ==
    LET cols == UNION {ts[i].cols : i \in 1..Len(ts)}
    IN  Frame(cols, ConcatRows(ts, cols))

\* what the Textract stage can get for document d: analyze_document raises,
\* extract_tables_from_textract raises, or the tables
TextractResults(d) ==
    {[error |-> "analyze_document", tables |-> <<>>],
     [error |-> "extract_tables_from_textract", tables |-> <<>>],
     [error |-> "", tables |-> <<>>],
     [error |-> "", tables |-> <<Frame(FullHeaders, <<>>)>>],
     [error |-> "", tables |->
        <<Frame(FullHeaders,
                <<TableRow(FullHeaders, Str(<<D1>>), Str(<<Payee(d)>>),
                           Str(<<Pounds>>), EmptyStr, EmptyStr)>>)>>],
     [error |-> "", tables |->
        <<Frame(FullHeaders,
                <<TableRow(FullHeaders, Str(<<D1>>), Str(<<Payee(d)>>),
                           EmptyStr, EmptyStr, Str(<<A1>>))>>)>>],
     [error |-> "", tables |->
        <<Frame(FullHeaders \ {"Paid in"},
                <<TableRow(FullHeaders \ {"Paid in"}, Str(<<D1>>),
                           Str(<<Payee(d)>>), Str(<<Pounds>>), EmptyStr,
                           EmptyStr)>>)>>]}

\* what camelot.read_pdf can get for a file that holds document d: it
\* raises, or the tables (t.df has the integer labels for its columns)
CamelotResults(d) ==
    {[error |-> "read_pdf", tables |-> <<>>],
     [error |-> "", tables |-> <<>>],
     [error |-> "", tables |-> <<Frame({"0", "1"}, <<>>)>>],
     [error |-> "", tables |->
        <<Frame({"0", "1"},
                << ("0" :> Str(<<Payee(d)>>)) @@ ("1" :> Str(<<A3>>)) >>)>>]}

\* what the OCR fallback can get for document d: convert_from_bytes raises,
\* or the transactions the loop emits
OcrResults(d) ==
    {[error |-> "convert_from_bytes", data |-> <<>>],
     [error |-> "", data |-> <<>>],
     [error |-> "", data |->
        <<TransactionDict(<<D1>>, <<Payee(d)>>, EmptyStr, EmptyStr, EmptyStr)>>],
     [error |-> "", data |->
        <<TransactionDict(<<D1>>, <<Payee(d)>>, Float(1250), Float(123456),
                          EmptyStr)>>]}

\* no fallback is guarded
AlwaysRuns(d) == TRUE

\* if df.empty: the guard of both fallbacks
RunsFallback(d) == IsEmpty(d)

\* one entry of the record of the stages a request ran: the stage, whether
\* it raised, and the working table it left
Ran(stage, error, d) == [stage |-> stage, error |-> error, df |-> d]

\* df.head(3)...to_dict(orient="records")
Preview(d) == SubSeq(d.rows, 1, IF Len(d.rows) < 3 THEN Len(d.rows) ELSE 3)

\* the local variables of request p when upload is entered for it
Entered(p, name) ==
    [pc |-> "start", filename |-> name, contents |-> p, file_id |-> p,
     df |-> EmptyFrame, ran |-> <<>>, response |-> <<>>]

\* the requests R have been entered, each with some file name
InitRequests(R) ==
    /\ pc = "upload"
    /\ upload \in {[p \in R |-> Entered(p, f[p])] : f \in [R -> FileNames]}
    /\ UPLOAD_DIR = [n \in FileNames |-> 0]
    /\ OUTPUT_DIR = <<>>
    /\ text = <<>>
    /\ data = <<>>
    /\ current_date = <<>>
    /\ current_desc = <<>>
    /\ current_paid_out = EmptyStr
    /\ current_paid_in = EmptyStr
    /\ current_balance = EmptyStr
    /\ df = EmptyFrame
    /\ out = Returned(EmptyFrame)
    /\ out2 = Returned(EmptyFrame)
    /\ blocks = <<>>
    /\ current_row = <<>>
    /\ current_table = <<>>
    /\ tables = <<>>

\* several requests at a time
InitUpload == InitRequests(Requests)

\* one request at a time
InitFallback == InitRequests({1})

\* the contents are written to UPLOAD_DIR / file.filename; df = pd.DataFrame()
Receive(p) ==
    /\ upload[p].pc = "start"
    /\ UPLOAD_DIR' = [UPLOAD_DIR EXCEPT ![upload[p].filename] = upload[p].contents]
    /\ upload' = [upload EXCEPT ![p].pc = "textract", ![p].df = EmptyFrame]
    /\ UNCHANGED OUTPUT_DIR
    /\ UNCHANGED <<pc, df, out, out2>>
    /\ UNCHANGED ocrVars
    /\ UNCHANGED gridVars

\* the stage body shared by Textract and Camelot: nothing is assigned when
\* the engine raises or finds no table; else df is the concatenation, and
\* then what clean_dataframe returns, unless clean_dataframe raises
StageOutcome(d, error, ts) ==
    IF error # "" THEN Ran("", error, d)
    ELSE IF ts = <<>> THEN Ran("", "", d)
    ELSE LET res == clean_dataframe(Concat(ts))
         IN  IF res.ok THEN Ran("", "", res.df)
             ELSE Ran("", "clean_dataframe", Concat(ts))

\* Primary: AWS Textract, in try/except Exception
TextractStage(p, resp) ==
    LET o == StageOutcome(upload[p].df, resp.error, resp.tables)
    IN
    /\ upload[p].pc = "textract"
    /\ upload' = [upload EXCEPT
                     ![p].pc = "camelot",
                     ![p].df = o.df,
                     ![p].ran = Append(@, Ran("textract", o.error, o.df))]
    /\ UNCHANGED <<UPLOAD_DIR, OUTPUT_DIR>>
    /\ UNCHANGED <<pc, df, out, out2>>
    /\ UNCHANGED ocrVars
    /\ UNCHANGED gridVars

\* Fallback 1: Camelot, in try/except; it reads the file at input_path
CamelotStage(p, resp) ==
    LET o == StageOutcome(upload[p].df, resp.error,
                          SelectSeq(resp.tables, LAMBDA t : ~IsEmpty(t)))
    IN
    /\ upload[p].pc = "camelot"
    /\ RunsFallback(upload[p].df)
    /\ upload' = [upload EXCEPT
                     ![p].pc = "ocr",
                     ![p].df = o.df,
                     ![p].ran = Append(@, Ran("camelot", o.error, o.df))]
    /\ UNCHANGED <<UPLOAD_DIR, OUTPUT_DIR>>
    /\ UNCHANGED <<pc, df, out, out2>>
    /\ UNCHANGED ocrVars
    /\ UNCHANGED gridVars

\* if df.empty is false at Fallback 1
SkipCamelot(p) ==
    /\ upload[p].pc = "camelot"
    /\ ~RunsFallback(upload[p].df)
    /\ upload' = [upload EXCEPT ![p].pc = "ocr"]
    /\ UNCHANGED <<UPLOAD_DIR, OUTPUT_DIR>>
    /\ UNCHANGED <<pc, df, out, out2>>
    /\ UNCHANGED ocrVars
    /\ UNCHANGED gridVars

\* Fallback 2: OCR, in no try block: an exception ends the request
OcrStage(p, resp) ==
    LET d == DataFrame(resp.data)
        res == clean_dataframe(d)
        error == IF resp.error # "" THEN resp.error
                 ELSE IF res.ok THEN "" ELSE "clean_dataframe"
        newdf == IF resp.error # "" THEN upload[p].df
                 ELSE IF res.ok THEN res.df ELSE d
    IN
    /\ upload[p].pc = "ocr"
    /\ RunsFallback(upload[p].df)
    /\ upload' = [upload EXCEPT
                     ![p].pc = IF error = "" THEN "save" ELSE "failed",
                     ![p].df = newdf,
                     ![p].ran = Append(@, Ran("ocr", error, newdf)),
                     ![p].response =
                         IF error = "" THEN @
                         ELSE <<[status |-> 500, preview |-> <<>>, file_id |-> 0]>>]
    /\ UNCHANGED <<UPLOAD_DIR, OUTPUT_DIR>>
    /\ UNCHANGED <<pc, df, out, out2>>
    /\ UNCHANGED ocrVars
    /\ UNCHANGED gridVars

\* if df.empty is false at Fallback 2
SkipOcr(p) ==
    /\ upload[p].pc = "ocr"
    /\ ~RunsFallback(upload[p].df)
    /\ upload' = [upload EXCEPT ![p].pc = "save"]
    /\ UNCHANGED <<UPLOAD_DIR, OUTPUT_DIR>>
    /\ UNCHANGED <<pc, df, out, out2>>
    /\ UNCHANGED ocrVars
    /\ UNCHANGED gridVars

\* df.to_excel, df.to_csv under the file_id, and the response
Save(p) ==
    /\ upload[p].pc = "save"
    /\ OUTPUT_DIR' = (upload[p].file_id :> upload[p].df) @@ OUTPUT_DIR
    /\ upload' = [upload EXCEPT
                     ![p].pc = "returned",
                     ![p].response =
                         <<[status |-> 200, preview |-> Preview(upload[p].df),
                            file_id |-> upload[p].file_id]>>]
    /\ UNCHANGED UPLOAD_DIR
    /\ UNCHANGED <<pc, df, out, out2>>
    /\ UNCHANGED ocrVars
    /\ UNCHANGED gridVars

NextUpload ==
    \E p \in DOMAIN upload :
        \/ Receive(p)
        \/ \E resp \in TextractResults(upload[p].contents) : TextractStage(p, resp)
        \/ \E resp \in CamelotResults(UPLOAD_DIR[upload[p].filename]) :
              CamelotStage(p, resp)
        \/ SkipCamelot(p)
        \/ \E resp \in OcrResults(upload[p].contents) : OcrStage(p, resp)
        \/ SkipOcr(p)
        \/ Save(p)

SpecUpload == InitUpload /\ [][NextUpload]_vars

SpecFallback == InitFallback /\ [][NextUpload]_vars

(***************************************************************************)
(* Properties of upload.                                                   *)
(***************************************************************************)
\* the request has ended: with the response, or with an exception
Ended(p) == upload[p].pc \in {"returned", "failed"}

\* analyze_document raised for the request
TextractFault(p) ==
    upload[p].ran # <<>> /\ upload[p].ran[1].error = "analyze_document"

\* no stage of the request raised
NoStageRaised(p) == \A k \in 1..Len(upload[p].ran) : upload[p].ran[k].error = ""

\* what the caller can tell from the response, the file names apart
Reported(p) ==
    [status |-> upload[p].response[1].status,
     preview |-> upload[p].response[1].preview]

\* C13 (as claimed): a request for which the Textract call raised ends with a
\* response that differs, in status or content, from the response of a
\* request for which nothing raised and no transaction was found.
C13_EmptyVsUpstreamFailure ==
    \A p, q \in Requests :
        (/\ Ended(p) /\ TextractFault(p)
         /\ upload[q].pc = "returned" /\ NoStageRaised(q)
         /\ OUTPUT_DIR[upload[q].file_id].rows = <<>>)
        => Reported(p) # Reported(q)

\* the documents whose payee is read in a table
DocsIn(d) ==
    {q \in Requests :
        \E i \in RowIdx(d) : \E c \in d.cols :
            /\ d.rows[i][c].t = "str"
            /\ \E j \in 1..Len(d.rows[i][c].s) : d.rows[i][c].s[j] = Payee(q)}

\* C16 (as claimed): in every interleaving the table saved for a request
\* holds texts of the request's own document only.
C16_DocumentIsolation ==
    \A p \in Requests :
        upload[p].file_id \in DOMAIN OUTPUT_DIR =>
            DocsIn(OUTPUT_DIR[upload[p].file_id]) \subseteq {upload[p].contents}

\* C18 (as claimed): when the Textract stage or the Camelot stage raised, the
\* working table it left is empty, so the next fallback runs and nothing
\* of the stage is saved.
C18_FailedStageDiscarded ==
    \A p \in Requests :
        \A k \in 1..Len(upload[p].ran) :
            (/\ upload[p].ran[k].stage \in {"textract", "camelot"}
             /\ upload[p].ran[k].error # "")
            => IsEmpty(upload[p].ran[k].df)

StageOrder == <<"textract", "camelot", "ocr">>

\* C19: the stages a request ran are Textract, Camelot, OCR in this order,
\* without gap; a stage ran only if every stage before it left the working
\* table empty; and the table saved is the one left by the last stage that
\* ran, which is the first stage to leave a table that is not empty, or the
\* OCR stage when there is none.
C19_FallbackOrdering ==
    \A p \in DOMAIN upload :
        LET r == upload[p].ran
        IN  /\ Len(r) <= Len(StageOrder)
            /\ \A k \in 1..Len(r) : r[k].stage = StageOrder[k]
            /\ \A k \in 2..Len(r) : IsEmpty(r[k - 1].df)
            /\ upload[p].pc = "returned" =>
                  /\ r # <<>>
                  /\ OUTPUT_DIR[upload[p].file_id] = Last(r).df
                  /\ IsEmpty(Last(r).df) => Last(r).stage = "ocr"

\* C19 witness: the Textract stage left nothing, the Camelot stage left a
\* table, the OCR stage was not run and the table of the Camelot stage was
\* saved
C19_Witness ==
    \E p \in DOMAIN upload :
        /\ upload[p].pc = "returned" /\ Len(upload[p].ran) = 2
        /\ IsEmpty(upload[p].ran[1].df)
        /\ ~IsEmpty(upload[p].ran[2].df)
        /\ OUTPUT_DIR[upload[p].file_id] = upload[p].ran[2].df

====
